---- MODULE Spec2Model ----
(***************************************************************************)
(* Shared credentials provider with STS role assumption and a pluggable    *)
(* response cache (package sharedcreds).                                   *)
(*                                                                         *)
(* Strings that the code inspects character by character (profile names,  *)
(* role ARNs, session names, keys) are sequences of one-character strings; *)
(* the empty Go string "" is the empty sequence.  File paths and error     *)
(* codes, which the code only compares or joins, are TLA+ strings.         *)
(* Time is an integer number of clock units; the zero time.Time is 0 and   *)
(* the wall clock never reads less than 1.                                 *)
(***************************************************************************)
EXTENDS Integers, Sequences, FiniteSets, TLC

VARIABLES
    p,          \* the SharedCredentialsProvider struct
    env,        \* process environment and the credentials the STS client signs with
    credsFile,  \* the shared credentials file on disk
    cacheStore, \* cache entries by cache key (files of the cache directory, or the in-memory store)
    now,        \* wall clock
    crashed,    \* the process ended in a nil-pointer panic
    last,       \* history: what the most recent Retrieve did and returned
    lastOK,     \* history: the most recent Retrieve that completed successfully
    load,       \* input and result of a stand-alone loadProfile call (SpecLoad)
    keyed,      \* inputs and results of stand-alone getCacheKey calls (SpecKey)
    cacheOp     \* history of stand-alone FileCache Set and Get calls (SpecCache)

vars == <<p, env, credsFile, cacheStore, now, crashed, last, lastOK, load, keyed, cacheOp>>

(* ------------------------------ bounds -------------------------------- *)

MaxClock == 3
MaxExpiration == 3
MaxArnLen == 2

(* ----------------------------- constants ------------------------------ *)

Empty == << >>

\* A Go pointer or interface value: None is nil, Some(x) points to x.
None == << >>
Some(x) == <<x>>
Deref(ptr) == ptr[1]

SharedCredsProviderName == "SharedCredentialsProvider"

DefaultName == <<"d", "e", "f", "a", "u", "l", "t">>
OpsName == <<"o", "p", "s">>

\* time.Duration values are held in milliseconds.
Second == 1000
Minute == 60000
DefaultDurationMinutes == 15
DefaultDuration == DefaultDurationMinutes * Minute

(* ------------------------------ strings ------------------------------- *)

\* strings.Replace(s, old, new, 1): only the first occurrence is replaced.
RECURSIVE Replace_First(_, _, _)
Replace_First(s, old, new) ==
    IF s = Empty THEN Empty
    ELSE IF Head(s) = old THEN <<new>> \o Tail(s)
    ELSE <<Head(s)>> \o Replace_First(Tail(s), old, new)

\* strings.Replace(s, old, new, -1) for a one-character old.
RECURSIVE Replace(_, _, _)
Replace(s, old, new) ==
    IF s = Empty THEN Empty
    ELSE <<(IF Head(s) = old THEN new ELSE Head(s))>> \o Replace(Tail(s), old, new)

\* strings.Join(elems, sep)
RECURSIVE Join(_, _)
Join(elems, sep) ==
    IF Len(elems) = 0 THEN Empty
    ELSE IF Len(elems) = 1 THEN elems[1]
    ELSE elems[1] \o sep \o Join(Tail(elems), sep)

Digit(d) == <<"0", "1", "2", "3", "4", "5", "6", "7", "8", "9">>[d + 1]

\* fmt.Sprintf("%d", n) for n >= 0
RECURSIVE FormatInt(_)
FormatInt(n) ==
    IF n < 10 THEN <<Digit(n)>>
    ELSE FormatInt(n \div 10) \o <<Digit(n % 10)>>

(* --------------------------- profile loading -------------------------- *)

\* credentials.Value{ProviderName: SharedCredsProviderName}
EmptyValue ==
    [AccessKeyID |-> Empty, SecretAccessKey |-> Empty, SessionToken |-> Empty,
     ProviderName |-> SharedCredsProviderName,
     RoleARN |-> Empty, RoleSessionName |-> Empty, SourceProfile |-> Empty,
     MFASerial |-> Empty, ExternalID |-> None]

NoError == [Code |-> "", Message |-> ""]

\* awserr.New(code, message, origErr)
AwsErr(code, message) == [Code |-> code, Message |-> message]

\* validate with the secret key tested before the access key.
validate_SecretFirst(value) ==
    IF value.RoleARN = Empty
    THEN IF value.SecretAccessKey = Empty
         THEN [value |-> EmptyValue,
               err |-> AwsErr("SharedCredsSecret", "did not contain aws_secret_access_key")]
         ELSE IF value.AccessKeyID = Empty
         THEN [value |-> EmptyValue,
               err |-> AwsErr("SharedCredsAccessKey", "did not contain aws_access_key_id")]
         ELSE [value |-> value, err |-> NoError]
    ELSE IF value.SourceProfile = Empty
         THEN [value |-> EmptyValue,
               err |-> AwsErr("SharedCredsSourceProfile", "did not contain source_profile")]
         ELSE [value |-> value, err |-> NoError]

validate_NoSourceCheck(value) ==
    IF value.RoleARN = Empty /\ value.AccessKeyID = Empty
    THEN [value |-> EmptyValue,
          err |-> AwsErr("SharedCredsAccessKey", "did not contain aws_access_key_id")]
    ELSE IF value.RoleARN = Empty /\ value.SecretAccessKey = Empty
    THEN [value |-> EmptyValue,
          err |-> AwsErr("SharedCredsSecret", "did not contain aws_secret_access_key")]
    ELSE [value |-> value, err |-> NoError]

validate(value) ==
    IF value.RoleARN = Empty
    THEN IF value.AccessKeyID = Empty
         THEN [value |-> EmptyValue,
               err |-> AwsErr("SharedCredsAccessKey", "did not contain aws_access_key_id")]
         ELSE IF value.SecretAccessKey = Empty
         THEN [value |-> EmptyValue,
               err |-> AwsErr("SharedCredsSecret", "did not contain aws_secret_access_key")]
         ELSE [value |-> value, err |-> NoError]
    ELSE IF value.SourceProfile = Empty
         THEN [value |-> EmptyValue,
               err |-> AwsErr("SharedCredsSourceProfile", "did not contain source_profile")]
         ELSE [value |-> value, err |-> NoError]

\* ini.Load(filename): the file must exist at that path and parse.
IniLoadOK(file, filename) == file.readable /\ filename = file.path

\* iniProfile.Key(k).String() is "" for a key the section does not hold;
\* a section is held as the record of its seven keys.
loadProfile(file, filename, profile) ==
    IF ~IniLoadOK(file, filename)
    THEN [value |-> EmptyValue,
          err |-> AwsErr("SharedCredsLoad", "failed to load shared credentials file")]
    ELSE IF profile \notin DOMAIN file.sections
    THEN [value |-> EmptyValue,
          err |-> AwsErr("SharedCredsLoad", "failed to get profile")]
    ELSE LET iniProfile == file.sections[profile] IN
         validate([AccessKeyID |-> iniProfile.aws_access_key_id,
                   SecretAccessKey |-> iniProfile.aws_secret_access_key,
                   SessionToken |-> iniProfile.aws_session_token,
                   ProviderName |-> SharedCredsProviderName,
                   RoleARN |-> iniProfile.role_arn,
                   RoleSessionName |-> iniProfile.role_session_name,
                   SourceProfile |-> iniProfile.source_profile,
                   MFASerial |-> iniProfile.mfa_serial,
                   ExternalID |-> None])

(* ------------------------ filename and profile ------------------------ *)

\* filepath.Join(homeDir, ".aws", "credentials")
HomeCredentials(homeDir) == homeDir \o "/.aws/credentials"

\* (p *SharedCredentialsProvider) filename(): the provider afterwards, the
\* name and whether ErrSharedCredentialsHomeNotFound is returned.
filename(q, e) ==
    IF q.Filename = ""
    THEN IF e.AWS_SHARED_CREDENTIALS_FILE # ""
         THEN [p |-> [q EXCEPT !.Filename = e.AWS_SHARED_CREDENTIALS_FILE],
               name |-> e.AWS_SHARED_CREDENTIALS_FILE, err |-> NoError]
         ELSE LET homeDir == IF e.HOME # "" THEN e.HOME ELSE e.USERPROFILE IN
              IF homeDir = ""
              THEN [p |-> q, name |-> "",
                    err |-> AwsErr("UserHomeNotFound", "user home directory not found.")]
              ELSE [p |-> [q EXCEPT !.Filename = HomeCredentials(homeDir)],
                    name |-> HomeCredentials(homeDir), err |-> NoError]
    ELSE [p |-> q, name |-> q.Filename, err |-> NoError]

\* (p *SharedCredentialsProvider) profile()
profile(q, e) ==
    LET fromEnv == IF q.Profile = Empty THEN e.AWS_PROFILE ELSE q.Profile
        name == IF fromEnv = Empty THEN DefaultName ELSE fromEnv
    IN [p |-> [q EXCEPT !.Profile = name], name |-> name]

(* ------------------------------- cache -------------------------------- *)

\* encoding/json of an sts.AssumeRoleOutput: a nil pointer is null, a struct
\* an object of its members, a string a JSON string, a time.Time its instant.
JSONNull == <<"null">>

Marshal(response) ==
    <<"object",
      [Credentials |->
         IF response.Credentials = None THEN JSONNull
         ELSE LET c == Deref(response.Credentials) IN
              <<"object",
                [AccessKeyId |-> <<"string", c.AccessKeyId>>,
                 SecretAccessKey |-> <<"string", c.SecretAccessKey>>,
                 SessionToken |-> <<"string", c.SessionToken>>,
                 Expiration |-> <<"time", c.Expiration>>]>>]>>

\* json.Unmarshal(data, &response): data that is no JSON object is an error
\* and leaves the zero response.
ZeroOutput == [Credentials |-> None]

Unmarshal(data) ==
    IF data[1] # "object"
    THEN [response |-> ZeroOutput, err |-> AwsErr("SyntaxError", "invalid character")]
    ELSE LET c == data[2].Credentials IN
         [response |->
            [Credentials |->
               IF c = JSONNull THEN None
               ELSE Some([AccessKeyId |-> c[2].AccessKeyId[2],
                          SecretAccessKey |-> c[2].SecretAccessKey[2],
                          SessionToken |-> c[2].SessionToken[2],
                          Expiration |-> c[2].Expiration[2]])],
          err |-> NoError]

\* getCacheKey without the session name suffix.
getCacheKey_NoSession(profileName, roleArn, roleSessionName) ==
    Join(<<profileName, Replace(roleArn, ":", "_")>>, <<"-", "-">>)

\* (c *JSONFileCacheProvider) getCacheKey
getCacheKey(profileName, roleArn, roleSessionName) ==
    LET arn == Replace(roleArn, ":", "_")
        cacheKey == Join(<<profileName, arn>>, <<"-", "-">>)
    IN IF roleSessionName # Empty
       THEN Join(<<cacheKey, roleSessionName>>, <<"-", "-">>)
       ELSE cacheKey

\* (c *JSONFileCacheProvider) Get: the FileCache for the key, its FileName
\* held as directory and base name; a leading "~" element of CacheDirName
\* is replaced by the user's home directory.  user.Current() is taken to
\* succeed (its error is dropped by the code) and CacheDirName to hold at
\* least two characters (dir[:2] is sliced unchecked).
JSONFileCacheProviderGet(c, e, profileName, roleArn, roleSessionName) ==
    LET cacheKey == getCacheKey(profileName, roleArn, roleSessionName)
        dir == IF Len(c.CacheDirName) > 1 /\ c.CacheDirName[1] = "~"
               THEN <<e.UserHomeDir>> \o Tail(c.CacheDirName)
               ELSE c.CacheDirName
    IN [kind |-> "file",
        FileName |-> [dir |-> dir,
                      base |-> Join(<<cacheKey, <<"j", "s", "o", "n">>>>, <<".">>)]]

\* The in-memory store of the design: one entry per cache key.
MemoryCacheProviderGet(c, profileName, roleArn, roleSessionName) ==
    [kind |-> "memory",
     FileName |-> [dir |-> <<"memory">>,
                   base |-> getCacheKey(profileName, roleArn, roleSessionName)]]

\* p.CacheProvider.Get(...)
CacheProviderGet(c, e, profileName, roleArn, roleSessionName) ==
    IF c.kind = "file"
    THEN JSONFileCacheProviderGet(c, e, profileName, roleArn, roleSessionName)
    ELSE MemoryCacheProviderGet(c, profileName, roleArn, roleSessionName)

\* (c *FileCache) Get, and the in-memory store's Get: read, then Unmarshal.
CacheGet(cache, store) ==
    IF cache.FileName \notin DOMAIN store
    THEN [response |-> None, err |-> AwsErr("PathError", "no such file or directory")]
    ELSE LET u == Unmarshal(store[cache.FileName]) IN
         [response |-> Some(u.response), err |-> u.err]

\* (c *FileCache) IsExpired
FileCacheIsExpired(cache, store, t) == TRUE

\* IsExpired of a conforming store: stale unless the entry holds an
\* expiration later than the current time.
MemoryCacheIsExpired(cache, store, t) ==
    LET got == CacheGet(cache, store) IN
    \/ got.err # NoError
    \/ Deref(got.response).Credentials = None
    \/ Deref(Deref(got.response).Credentials).Expiration <= t

CacheIsExpired(cache, store, t) ==
    IF cache.kind = "file"
    THEN FileCacheIsExpired(cache, store, t)
    ELSE MemoryCacheIsExpired(cache, store, t)

\* Set that creates the file but never overwrites one that exists.
CacheSet_KeepFirst(cache, store, response, writeOK) ==
    IF response = None
    THEN [store |-> store, err |-> NoError, panic |-> TRUE]
    ELSE IF ~writeOK
    THEN [store |-> store, err |-> AwsErr("PathError", "open failed"), panic |-> FALSE]
    ELSE [store |-> [f \in DOMAIN store \cup {cache.FileName} |->
                        IF f \in DOMAIN store THEN store[f]
                        ELSE Marshal(Deref(response))],
          err |-> NoError, panic |-> FALSE]

\* (c *FileCache) Set: *response panics on a nil response; writeOK is whether
\* ioutil.WriteFile succeeds.
CacheSet(cache, store, response, writeOK) ==
    IF response = None
    THEN [store |-> store, err |-> NoError, panic |-> TRUE]
    ELSE IF ~writeOK
    THEN [store |-> store, err |-> AwsErr("PathError", "open failed"), panic |-> FALSE]
    ELSE [store |-> [f \in DOMAIN store \cup {cache.FileName} |->
                        IF f = cache.FileName THEN Marshal(Deref(response))
                        ELSE store[f]],
          err |-> NoError, panic |-> FALSE]

(* ------------------------------- expiry ------------------------------- *)

\* credentials.Expiry.SetExpiration: the window is subtracted when positive.
SetExpiration(q, expirationTime, window) ==
    [q EXCEPT !.Expiry.expiration =
        IF window > 0 THEN expirationTime - window ELSE expirationTime]

\* credentials.Expiry.IsExpired at clock reading t.
ExpiryIsExpired(expiry, t) == t >= expiry.expiration

IsExpired_Or(q, t) == ~q.retrieved \/ ExpiryIsExpired(q.Expiry, t)

\* (p *SharedCredentialsProvider) IsExpired
IsExpired(q, t) == ~q.retrieved /\ ExpiryIsExpired(q.Expiry, t)

(* ------------------------------- Assume ------------------------------- *)

\* sts.New(session.New()): a client signing with what the default
\* credential chain of the process resolves.
DefaultClient(e) == [Credentials |-> e.DefaultChainCredentials]

\* The request p.STS.Client.AssumeRole sends: the sts.AssumeRoleInput and
\* the credentials of the client that signs it.
AssumeRoleRequest(q, credentials) ==
    [DurationSeconds |-> q.STS.Duration \div Second,
     RoleArn |-> credentials.RoleARN,
     RoleSessionName |-> credentials.RoleSessionName,
     ExternalId |-> credentials.ExternalID,
     SignedWith |-> Deref(q.STS.Client).Credentials]

\* Lines 138-149 with a session name that does not follow the clock.
AssumeDefaults_ConstantSession(q, credentials, e, t) ==
    [credentials |->
        IF credentials.RoleSessionName = Empty
        THEN [credentials EXCEPT !.RoleSessionName = FormatInt(1)]
        ELSE credentials,
     p |-> [q EXCEPT
              !.STS.Duration = IF @ = 0 THEN DefaultDuration ELSE @,
              !.STS.Client = IF @ = None THEN Some(DefaultClient(e)) ELSE @]]

\* Lines 138-149 without the duration default.
AssumeDefaults_NoDuration(q, credentials, e, t) ==
    [credentials |->
        IF credentials.RoleSessionName = Empty
        THEN [credentials EXCEPT !.RoleSessionName = FormatInt(t)]
        ELSE credentials,
     p |-> [q EXCEPT
              !.STS.Client = IF @ = None THEN Some(DefaultClient(e)) ELSE @]]

\* Lines 138-149: defaults for the session name, the duration and the client.
AssumeDefaults(q, credentials, e, t) ==
    [credentials |->
        IF credentials.RoleSessionName = Empty
        THEN [credentials EXCEPT !.RoleSessionName = FormatInt(t)]
        ELSE credentials,
     p |-> [q EXCEPT
              !.STS.Duration = IF @ = 0 THEN DefaultDuration ELSE @,
              !.STS.Client = IF @ = None THEN Some(DefaultClient(e)) ELSE @]]

\* Lines 150-174: where roleOutput and err come from. net is the outcome of
\* the AssumeRole call if one is made, writeOK that of the cache file write.
AssumeFetch_AlwaysCache(q, credentials, e, store, t, net, writeOK) ==
    LET cache == CacheProviderGet(q.CacheProvider, e, credentials.SourceProfile,
                                  credentials.RoleARN, credentials.RoleSessionName)
        request == AssumeRoleRequest(q, credentials)
    IN IF ~CacheIsExpired(cache, store, t)
       THEN LET got == CacheGet(cache, store) IN
            [roleOutput |-> got.response, err |-> got.err, store |-> store,
             calls |-> << >>, panic |-> FALSE]
       ELSE [roleOutput |-> net.response, err |-> net.err, store |-> store,
             calls |-> <<request>>, panic |-> FALSE]

AssumeFetch(q, credentials, e, store, t, net, writeOK) ==
    LET cache == CacheProviderGet(q.CacheProvider, e, credentials.SourceProfile,
                                  credentials.RoleARN, credentials.RoleSessionName)
        request == AssumeRoleRequest(q, credentials)
    IN IF q.Cache
       THEN IF ~CacheIsExpired(cache, store, t)
            THEN LET got == CacheGet(cache, store) IN
                 [roleOutput |-> got.response, err |-> got.err, store |-> store,
                  calls |-> << >>, panic |-> FALSE]
            ELSE IF net.err # NoError
                 THEN LET set == CacheSet(cache, store, net.response, writeOK) IN
                      [roleOutput |-> net.response, err |-> set.err,
                       store |-> set.store, calls |-> <<request>>,
                       panic |-> set.panic]
                 ELSE [roleOutput |-> net.response, err |-> net.err, store |-> store,
                       calls |-> <<request>>, panic |-> FALSE]
       ELSE [roleOutput |-> net.response, err |-> net.err, store |-> store,
             calls |-> <<request>>, panic |-> FALSE]

\* Lines 176-188: the error return, else the expiration and the value;
\* dereferencing a nil roleOutput or nil Credentials panics.
AssumeFinish_NoExpiration(q, fetched) ==
    IF fetched.panic
    THEN [p |-> q, value |-> EmptyValue, err |-> NoError, panic |-> TRUE]
    ELSE IF fetched.err # NoError
    THEN [p |-> q, value |-> EmptyValue, err |-> fetched.err, panic |-> FALSE]
    ELSE IF fetched.roleOutput = None
    THEN [p |-> q, value |-> EmptyValue, err |-> NoError, panic |-> TRUE]
    ELSE IF Deref(fetched.roleOutput).Credentials = None
    THEN [p |-> q, value |-> EmptyValue, err |-> NoError, panic |-> TRUE]
    ELSE LET c == Deref(Deref(fetched.roleOutput).Credentials) IN
         [p |-> q,
          value |-> [EmptyValue EXCEPT !.AccessKeyID = c.AccessKeyId,
                                       !.SecretAccessKey = c.SecretAccessKey,
                                       !.SessionToken = c.SessionToken],
          err |-> NoError, panic |-> FALSE]

\* Lines 176-188 with the expiration cleared when an error is returned.
AssumeFinish_ResetOnError(q, fetched) ==
    IF fetched.panic
    THEN [p |-> q, value |-> EmptyValue, err |-> NoError, panic |-> TRUE]
    ELSE IF fetched.err # NoError
    THEN [p |-> SetExpiration(q, 0, 0), value |-> EmptyValue, err |-> fetched.err,
          panic |-> FALSE]
    ELSE IF fetched.roleOutput = None
    THEN [p |-> q, value |-> EmptyValue, err |-> NoError, panic |-> TRUE]
    ELSE IF Deref(fetched.roleOutput).Credentials = None
    THEN [p |-> q, value |-> EmptyValue, err |-> NoError, panic |-> TRUE]
    ELSE LET c == Deref(Deref(fetched.roleOutput).Credentials) IN
         [p |-> SetExpiration(q, c.Expiration, q.STS.ExpiryWindow),
          value |-> [EmptyValue EXCEPT !.AccessKeyID = c.AccessKeyId,
                                       !.SecretAccessKey = c.SecretAccessKey,
                                       !.SessionToken = c.SessionToken],
          err |-> NoError, panic |-> FALSE]

AssumeFinish(q, fetched) ==
    IF fetched.panic
    THEN [p |-> q, value |-> EmptyValue, err |-> NoError, panic |-> TRUE]
    ELSE IF fetched.err # NoError
    THEN [p |-> q, value |-> EmptyValue, err |-> fetched.err, panic |-> FALSE]
    ELSE IF fetched.roleOutput = None
    THEN [p |-> q, value |-> EmptyValue, err |-> NoError, panic |-> TRUE]
    ELSE IF Deref(fetched.roleOutput).Credentials = None
    THEN [p |-> q, value |-> EmptyValue, err |-> NoError, panic |-> TRUE]
    ELSE LET c == Deref(Deref(fetched.roleOutput).Credentials) IN
         [p |-> SetExpiration(q, c.Expiration, q.STS.ExpiryWindow),
          value |-> [EmptyValue EXCEPT !.AccessKeyID = c.AccessKeyId,
                                       !.SecretAccessKey = c.SecretAccessKey,
                                       !.SessionToken = c.SessionToken],
          err |-> NoError, panic |-> FALSE]

\* (p *SharedCredentialsProvider) Assume
Assume(q, credentials, sourceCredentials, e, store, t, net, writeOK) ==
    LET d == AssumeDefaults(q, credentials, e, t)
        fetched == AssumeFetch(d.p, d.credentials, e, store, t, net, writeOK)
        done == AssumeFinish(d.p, fetched)
    IN [p |-> done.p, store |-> fetched.store, value |-> done.value,
        err |-> done.err, panic |-> done.panic, calls |-> fetched.calls,
        credentials |-> d.credentials]

(* ------------------------------ Retrieve ------------------------------ *)

\* Retrieve from line 111 on, as a function of the state it reads and of
\* the outcomes of the calls it may make.
RetrieveFrom(q0, e, file, store, t, net, writeOK) ==
    LET f == filename(q0, e)
        pr == profile(f.p, e)
        creds == loadProfile(file, f.name, pr.name)
        stop(q1, kind, err) ==
            [p |-> q1, store |-> store, value |-> EmptyValue, err |-> err,
             panic |-> FALSE, calls |-> << >>, kind |-> kind,
             credentials |-> None, source |-> None]
    IN IF f.err # NoError THEN stop(f.p, "none", f.err)
       ELSE IF creds.err # NoError THEN stop(pr.p, "none", creds.err)
       ELSE IF creds.value.RoleARN # Empty
       THEN LET c == IF creds.value.SourceProfile = Empty
                     THEN [creds.value EXCEPT !.SourceProfile = DefaultName]
                     ELSE creds.value
                sourceCreds == loadProfile(file, f.name, c.SourceProfile)
            IN IF sourceCreds.err # NoError THEN stop(pr.p, "role", sourceCreds.err)
               ELSE LET a == Assume(pr.p, c, sourceCreds.value, e, store, t, net, writeOK)
                    IN [p |-> a.p, store |-> a.store, value |-> a.value,
                        err |-> a.err, panic |-> a.panic, calls |-> a.calls,
                        kind |-> "role", credentials |-> Some(a.credentials),
                        source |-> Some(sourceCreds.value)]
       ELSE [p |-> [pr.p EXCEPT !.retrieved = TRUE], store |-> store,
             value |-> creds.value, err |-> NoError, panic |-> FALSE,
             calls |-> << >>, kind |-> "static", credentials |-> Some(creds.value),
             source |-> None]

\* Retrieve without line 109.
RetrieveCall_NoReset(q, e, file, store, t, net, writeOK) ==
    RetrieveFrom(q, e, file, store, t, net, writeOK)

RetrieveCall_MarkEarly(q, e, file, store, t, net, writeOK) ==
    RetrieveFrom([q EXCEPT !.retrieved = TRUE], e, file, store, t, net, writeOK)

\* (p *SharedCredentialsProvider) Retrieve
RetrieveCall(q, e, file, store, t, net, writeOK) ==
    RetrieveFrom([q EXCEPT !.retrieved = FALSE], e, file, store, t, net, writeOK)

(* ----------------------- inputs and initial state --------------------- *)

KeyA == <<"A">>
KeyB == <<"B">>
SecretS == <<"S">>
RoleX == <<"r", ":", "X">>
SessionS == <<"s">>

CredentialsPath == "/home/u/.aws/credentials"

Section(ak, sk, arn, session, source) ==
    [aws_access_key_id |-> ak, aws_secret_access_key |-> sk,
     aws_session_token |-> Empty, role_arn |-> arn,
     role_session_name |-> session, source_profile |-> source,
     mfa_serial |-> Empty]

File(sections) == [readable |-> TRUE, path |-> CredentialsPath, sections |-> sections]

TwoSections(d, o) == [n \in {DefaultName, OpsName} |-> IF n = DefaultName THEN d ELSE o]

StaticA == Section(KeyA, SecretS, Empty, Empty, Empty)
StaticB == Section(KeyB, SecretS, Empty, Empty, Empty)

\* The credentials files of the model: an unreadable file, and readable
\* ones whose "ops" section is static, role-chained with or without a
\* session name, role-chained without source_profile, or role-chained
\* from a "default" section that lacks its secret key.
CredentialsFiles ==
    {[readable |-> FALSE, path |-> CredentialsPath, sections |-> << >>],
     File(TwoSections(StaticA, StaticB)),
     File(TwoSections(StaticA, Section(Empty, Empty, RoleX, SessionS, DefaultName))),
     File(TwoSections(StaticB, Section(Empty, Empty, RoleX, SessionS, DefaultName))),
     File(TwoSections(StaticA, Section(Empty, Empty, RoleX, Empty, DefaultName))),
     File(TwoSections(StaticA, Section(KeyA, SecretS, RoleX, SessionS, Empty))),
     File(TwoSections(Section(KeyA, Empty, Empty, Empty, Empty),
                      Section(Empty, Empty, RoleX, SessionS, DefaultName)))}

Environment(file, home, profileName) ==
    [AWS_SHARED_CREDENTIALS_FILE |-> file, HOME |-> home, USERPROFILE |-> "",
     AWS_PROFILE |-> profileName, UserHomeDir |-> "/home/u",
     DefaultChainCredentials |-> [AccessKeyID |-> KeyA, SecretAccessKey |-> SecretS]]

\* How the provider is pointed at its file and profile: both given
\* explicitly; both from the AWS environment variables, the file variable
\* naming a path where no file is; the file under HOME and the "default"
\* profile; or nothing set at all.
Setups ==
    {[Filename |-> CredentialsPath, Profile |-> OpsName, env |-> Environment("", "", Empty)],
     [Filename |-> "", Profile |-> Empty, env |-> Environment("/tmp/credentials", "", OpsName)],
     [Filename |-> "", Profile |-> Empty, env |-> Environment("", "/home/u", Empty)],
     [Filename |-> "", Profile |-> Empty, env |-> Environment("", "", Empty)]}

\* An injected STS client signs with credentials of its own.
InjectedClient == [Credentials |-> [AccessKeyID |-> KeyB, SecretAccessKey |-> SecretS]]

\* One and a half seconds.
ShortDuration == Second + Second \div 2

\* filepath.Join("~", ".aws", "cli", "cache")
JSONFileCacheProvider == [kind |-> "file", CacheDirName |-> <<"~", ".aws", "cli", "cache">>]
MemoryCacheProvider == [kind |-> "memory", CacheDirName |-> << >>]

\* NewSharedCredentialsWithOptions(filename, profile, options...)
NewSharedCredentialsWithOptions(fname, profileName, cache, provider, sts) ==
    [Expiry |-> [expiration |-> 0],
     Filename |-> fname, Profile |-> profileName, retrieved |-> FALSE,
     CacheProvider |-> provider, Cache |-> cache, STS |-> sts]

\* What the network client can answer: session credentials with some
\* expiration, or an error with a nil or an empty output.
SessionCredentials(ak, x) ==
    [Credentials |-> Some([AccessKeyId |-> ak, SecretAccessKey |-> <<"K">>,
                           SessionToken |-> <<"T">>, Expiration |-> x])]

NetOutcomes ==
    {[response |-> Some(SessionCredentials(<<"N">>, x)), err |-> NoError] :
        x \in 1..MaxExpiration}
    \cup {[response |-> r, err |-> AwsErr("AssumeRoleFailure", "AccessDenied")] :
            r \in {None, Some(ZeroOutput)}}

\* Cache entries found at start: none, or a session left under the key of
\* (default, RoleX, SessionS) by an earlier process.
InitialStores(provider, e) ==
    LET cache == CacheProviderGet(provider, e, DefaultName, RoleX, SessionS) IN
    {<< >>}
    \cup {[f \in {cache.FileName} |-> Marshal(SessionCredentials(<<"C">>, 2))]}

\* History of the most recent Retrieve: what it returned, the profiles it
\* loaded, the requests it sent, the answer it got and, when Assume derived
\* the session name from the clock, the clock reading it was derived from.
NoCall ==
    [value |-> EmptyValue, err |-> NoError, panic |-> FALSE, calls |-> << >>,
     kind |-> "init", credentials |-> None, source |-> None, net |-> None,
     derivedAt |-> None]

\* History of the most recent successful Retrieve: its kind and, for a role
\* assumption, the expiration of the session it obtained.
NoSuccess == [kind |-> "none", expiration |-> 0]

NoLoad == [file |-> [readable |-> FALSE, path |-> "", sections |-> << >>],
           profile |-> Empty, done |-> FALSE,
           result |-> [value |-> EmptyValue, err |-> NoError]]

NoKey == [a |-> <<Empty, Empty, Empty>>, b |-> <<Empty, Empty, Empty>>,
          done |-> FALSE, keyA |-> Empty, keyB |-> Empty]

\* History of the stand-alone FileCache calls: per file the response of the
\* latest Set that succeeded, the files with a failed Set after it, and the
\* most recent call with the entry it found and what it returned.
NoCacheOp ==
    [stored |-> << >>, failed |-> {}, op |-> "none", file |-> None,
     arg |-> None, before |-> None, repeated |-> FALSE,
     got |-> [response |-> None, err |-> NoError]]

\* The cache configurations: off or on, with the file store or the
\* in-memory store.
CacheOptions ==
    [Cache : BOOLEAN, CacheProvider : {JSONFileCacheProvider, MemoryCacheProvider}]

\* The STS options: duration and client left unset, or both given.
STSOptions(window) ==
    {[Duration |-> 0, ExpiryWindow |-> window, Client |-> None],
     [Duration |-> ShortDuration, ExpiryWindow |-> window, Client |-> Some(InjectedClient)]}

Init ==
    /\ \E setup \in Setups, c \in CacheOptions, window \in {0, 1} :
         /\ env = setup.env
         /\ \E sts \in STSOptions(window) :
              p = NewSharedCredentialsWithOptions(setup.Filename, setup.Profile,
                                                  c.Cache, c.CacheProvider, sts)
    /\ credsFile \in CredentialsFiles
    /\ cacheStore \in InitialStores(p.CacheProvider, env)
    /\ now = 1
    /\ crashed = FALSE
    /\ last = NoCall
    /\ lastOK = NoSuccess
    /\ load = NoLoad
    /\ keyed = NoKey
    /\ cacheOp = NoCacheOp

(* ------------------------------- actions ------------------------------ *)

\* The cache p.CacheProvider hands out for the loaded credentials.
CacheFor(q, e, credentials) ==
    CacheProviderGet(q.CacheProvider, e, credentials.SourceProfile,
                     credentials.RoleARN, credentials.RoleSessionName)

\* The session in roleOutput: the expiration Assume passes to SetExpiration.
SessionOf(response) == Deref(Deref(response).Credentials)

\* The primary profile's section, as the file holds it when Retrieve is
\* called, has a role_arn and no source_profile.
OmitsSource(q, e, file) ==
    LET f == filename(q, e)
        name == profile(f.p, e).name
    IN /\ f.err = NoError
       /\ IniLoadOK(file, f.name)
       /\ name \in DOMAIN file.sections
       /\ file.sections[name].role_arn # Empty
       /\ file.sections[name].source_profile = Empty

\* The section of the primary profile in the credentials file.
PrimarySection == credsFile.sections[profile(filename(p, env).p, env).name]

\* A caller invokes Retrieve.
Retrieve ==
    /\ ~crashed
    /\ \E net \in NetOutcomes, writeOK \in BOOLEAN :
         \E r \in {RetrieveCall(p, env, credsFile, cacheStore, now, net, writeOK)} :
         LET cache == CacheFor(p, env, Deref(r.credentials))
             ok == ~r.panic /\ r.err = NoError
         IN
         /\ p' = r.p
         /\ cacheStore' = r.store
         /\ crashed' = r.panic
         /\ last' = [value |-> r.value, err |-> r.err, panic |-> r.panic,
                     calls |-> r.calls, kind |-> r.kind,
                     credentials |-> r.credentials, source |-> r.source,
                     net |-> IF r.calls = << >> THEN None ELSE Some(net),
                     derivedAt |-> IF r.credentials # None /\ r.source # None
                                      /\ PrimarySection.role_session_name = Empty
                                   THEN Some(now) ELSE None]
         /\ lastOK' = IF ~ok THEN lastOK
                      ELSE IF r.kind = "static" THEN [kind |-> "static", expiration |-> 0]
                      ELSE [kind |-> "role",
                            expiration |->
                               SessionOf(IF r.calls = << >>
                                         THEN CacheGet(cache, cacheStore).response
                                         ELSE net.response).Expiration]
    /\ UNCHANGED <<env, credsFile, now, load, keyed, cacheOp>>

\* The wall clock advances.
Tick ==
    /\ ~crashed
    /\ now < MaxClock
    /\ now' = now + 1
    /\ UNCHANGED <<p, env, credsFile, cacheStore, crashed, last, lastOK, load, keyed, cacheOp>>

\* The user edits, removes or restores the credentials file.
WriteCredentialsFile ==
    /\ ~crashed
    /\ credsFile' \in CredentialsFiles \ {credsFile}
    /\ UNCHANGED <<p, env, cacheStore, now, crashed, last, lastOK, load, keyed, cacheOp>>

Next == Retrieve \/ Tick \/ WriteCredentialsFile

Spec == Init /\ [][Next]_vars

(* --------------------- loadProfile on its own ------------------------- *)

\* Every section over the field values of the model.
LoadSections ==
    {[aws_access_key_id |-> ak, aws_secret_access_key |-> sk,
      aws_session_token |-> tok, role_arn |-> arn,
      role_session_name |-> session, source_profile |-> source,
      mfa_serial |-> Empty] :
        ak \in {Empty, KeyA}, sk \in {Empty, SecretS}, tok \in {Empty, <<"T">>},
        arn \in {Empty, RoleX}, session \in {Empty, SessionS},
        source \in {Empty, DefaultName}}

\* The files loadProfile is tried on: unreadable, or one "ops" section.
LoadFiles ==
    {[readable |-> FALSE, path |-> CredentialsPath, sections |-> << >>]}
    \cup {File([n \in {OpsName} |-> sec]) : sec \in LoadSections}

InitLoad ==
    /\ p = NewSharedCredentialsWithOptions(CredentialsPath, OpsName, FALSE,
              JSONFileCacheProvider,
              [Duration |-> 0, ExpiryWindow |-> 0, Client |-> None])
    /\ env = Environment("", "", Empty)
    /\ credsFile \in LoadFiles
    /\ cacheStore = << >>
    /\ now = 1
    /\ crashed = FALSE
    /\ last = NoCall
    /\ lastOK = NoSuccess
    /\ load \in {[file |-> credsFile, profile |-> n, done |-> FALSE,
                  result |-> [value |-> EmptyValue, err |-> NoError]] :
                    n \in {DefaultName, OpsName}}
    /\ keyed = NoKey
    /\ cacheOp = NoCacheOp

\* loadProfile(filename, profile) is called on the file.
LoadProfile ==
    /\ ~load.done
    /\ load' = [load EXCEPT !.done = TRUE,
                            !.result = loadProfile(load.file, CredentialsPath, load.profile)]
    /\ UNCHANGED <<p, env, credsFile, cacheStore, now, crashed, last, lastOK, keyed, cacheOp>>

NextLoad == LoadProfile

SpecLoad == InitLoad /\ [][NextLoad]_vars

(* --------------------- getCacheKey on its own ------------------------- *)

\* Strings of at most n characters over an alphabet.
RECURSIVE StringsUpTo(_, _)
StringsUpTo(alphabet, n) ==
    IF n = 0 THEN {Empty}
    ELSE LET shorter == StringsUpTo(alphabet, n - 1) IN
         shorter \cup {<<c>> \o w : c \in alphabet, w \in {x \in shorter : Len(x) = n - 1}}

\* The (profile, roleArn, roleSessionName) triples getCacheKey is tried on.
KeyTriples ==
    {<<n, arn, session>> :
        n \in {DefaultName, OpsName},
        arn \in StringsUpTo({":", "_", "/"}, MaxArnLen),
        session \in {Empty, SessionS, <<":">>}}

InitKey ==
    /\ p = NewSharedCredentialsWithOptions(CredentialsPath, OpsName, FALSE,
              JSONFileCacheProvider,
              [Duration |-> 0, ExpiryWindow |-> 0, Client |-> None])
    /\ env = Environment("", "", Empty)
    /\ credsFile = File(TwoSections(StaticA, StaticB))
    /\ cacheStore = << >>
    /\ now = 1
    /\ crashed = FALSE
    /\ last = NoCall
    /\ lastOK = NoSuccess
    /\ load = NoLoad
    /\ keyed \in {[a |-> a, b |-> b, done |-> FALSE, keyA |-> Empty, keyB |-> Empty] :
                    a \in KeyTriples, b \in KeyTriples}
    /\ cacheOp = NoCacheOp

\* getCacheKey is called on each of the two triples.
GetCacheKey ==
    /\ ~keyed.done
    /\ keyed' = [keyed EXCEPT !.done = TRUE,
                              !.keyA = getCacheKey(keyed.a[1], keyed.a[2], keyed.a[3]),
                              !.keyB = getCacheKey(keyed.b[1], keyed.b[2], keyed.b[3])]
    /\ UNCHANGED <<p, env, credsFile, cacheStore, now, crashed, last, lastOK, load, cacheOp>>

NextKey == GetCacheKey

SpecKey == InitKey /\ [][NextKey]_vars

(* ----------------------- FileCache on its own ------------------------- *)

\* The FileCaches of two cache keys.
CacheFiles ==
    {JSONFileCacheProviderGet(JSONFileCacheProvider, Environment("", "/home/u", Empty),
                              DefaultName, RoleX, session) :
        session \in {SessionS, <<"2">>}}

\* The responses handed to Set: sessions, an output without credentials,
\* and nil.
SetResponses ==
    {Some(SessionCredentials(<<"N">>, 1)), Some(SessionCredentials(<<"N">>, 2)),
     Some(SessionCredentials(<<"C">>, 2)), Some(ZeroOutput), None}

InitCache ==
    /\ p = NewSharedCredentialsWithOptions(CredentialsPath, OpsName, TRUE,
              JSONFileCacheProvider,
              [Duration |-> 0, ExpiryWindow |-> 0, Client |-> None])
    /\ env = Environment("", "/home/u", Empty)
    /\ credsFile = File(TwoSections(StaticA, StaticB))
    /\ cacheStore = << >>
    /\ now = 1
    /\ crashed = FALSE
    /\ last = NoCall
    /\ lastOK = NoSuccess
    /\ load = NoLoad
    /\ keyed = NoKey
    /\ cacheOp = NoCacheOp

\* cache.Set(response) is called on one of the FileCaches.
FileCacheSet ==
    /\ ~crashed
    /\ \E cache \in CacheFiles, response \in SetResponses, writeOK \in BOOLEAN :
         LET set == CacheSet(cache, cacheStore, response, writeOK)
             f == cache.FileName
             ok == ~set.panic /\ set.err = NoError
         IN
         /\ cacheStore' = set.store
         /\ crashed' = set.panic
         /\ cacheOp' =
              [stored |-> IF ok
                          THEN [g \in DOMAIN cacheOp.stored \cup {f} |->
                                  IF g = f THEN Deref(response) ELSE cacheOp.stored[g]]
                          ELSE cacheOp.stored,
               failed |-> IF ok THEN cacheOp.failed \ {f} ELSE cacheOp.failed \cup {f},
               op |-> "Set", file |-> Some(f), arg |-> response,
               before |-> IF f \in DOMAIN cacheStore THEN Some(cacheStore[f]) ELSE None,
               repeated |-> /\ f \in DOMAIN cacheOp.stored
                            /\ f \notin cacheOp.failed
                            /\ response # None
                            /\ cacheOp.stored[f] = Deref(response),
               got |-> [response |-> None, err |-> set.err]]
    /\ UNCHANGED <<p, env, credsFile, now, last, lastOK, load, keyed>>

\* cache.Get() is called on one of the FileCaches.
FileCacheGet ==
    /\ ~crashed
    /\ \E cache \in CacheFiles :
         LET f == cache.FileName IN
         cacheOp' = [cacheOp EXCEPT
                       !.op = "Get", !.file = Some(f), !.arg = None,
                       !.before = IF f \in DOMAIN cacheStore
                                  THEN Some(cacheStore[f]) ELSE None,
                       !.repeated = FALSE,
                       !.got = CacheGet(cache, cacheStore)]
    /\ UNCHANGED <<p, env, credsFile, cacheStore, now, crashed, last, lastOK, load, keyed>>

NextCache == FileCacheSet \/ FileCacheGet

SpecCache == InitCache /\ [][NextCache]_vars

(* ------------------------------- claims ------------------------------- *)

\* The most recent Retrieve loaded both profiles and entered Assume.
Reached(l) == l.kind = "role" /\ l.credentials # None

\* The store holds, for this cache, an entry whose expiration is later
\* than t.
Fresh(cache, store, t) ==
    LET got == CacheGet(cache, store) IN
    /\ got.err = NoError
    /\ Deref(got.response).Credentials # None
    /\ SessionOf(got.response).Expiration > t

\* The credentials.Value made of a stored session.
ValueOfSession(c) ==
    [EmptyValue EXCEPT !.AccessKeyID = c.AccessKeyId,
                       !.SecretAccessKey = c.SecretAccessKey,
                       !.SessionToken = c.SessionToken]

\* C1: a Retrieve with caching enabled that finds no fresh entry under the
\* computed key and whose network call succeeds makes exactly one network
\* call, and afterwards Get on that cache returns the session obtained.
C1_NetworkResultIsPersisted ==
    [][(/\ Retrieve
        /\ p.Cache
        /\ Reached(last')
        /\ ~Fresh(CacheFor(p, env, Deref(last'.credentials)), cacheStore, now)
        /\ last'.net # None
        /\ Deref(last'.net).err = NoError)
       => (/\ Len(last'.calls) = 1
           /\ CacheGet(CacheFor(p, env, Deref(last'.credentials)), cacheStore')
                = [response |-> Deref(last'.net).response, err |-> NoError])]_vars

\* C2: a Retrieve with caching enabled that finds a fresh entry under the
\* computed key returns the cached session and makes no network call.
C2_FreshEntryIsReused ==
    [][(/\ Retrieve
        /\ p.Cache
        /\ Reached(last')
        /\ Fresh(CacheFor(p, env, Deref(last'.credentials)), cacheStore, now))
       => (/\ last'.calls = << >>
           /\ ~last'.panic
           /\ last'.err = NoError
           /\ last'.value =
                ValueOfSession(SessionOf(
                    CacheGet(CacheFor(p, env, Deref(last'.credentials)),
                             cacheStore).response)))]_vars

\* C3: when the network call of a role-chained Retrieve fails, Retrieve
\* returns that very error and no credentials, and does not panic.
C3_NetworkFailureIsReturned ==
    (Reached(last) /\ last.net # None /\ Deref(last.net).err # NoError)
    => (/\ ~last.panic
        /\ last.err = Deref(last.net).err
        /\ last.value = EmptyValue)

\* C4 as stated: once a Retrieve has succeeded on a static profile,
\* IsExpired() is false after every further step, whatever the step is.
C4_StaticNeverExpiresAgain ==
    [][(last.kind = "static" /\ ~IsExpired(p, now)) => ~IsExpired(p', now')]_vars

\* C4 as amended: while the most recent Retrieve is one that succeeded on a
\* static profile, IsExpired() is false at every clock instant.
C4_StaticUnexpiredUntilNextRetrieve ==
    (last.kind = "static" /\ last.err = NoError) => ~IsExpired(p, now)

C4_Witness ==
    /\ last.kind = "static"
    /\ now > 1
    /\ ExpiryIsExpired(p.Expiry, now)
    /\ ~IsExpired(p, now)

\* C5: after the most recent successful Retrieve assumed a role and got
\* expiration E, with window W > 0, IsExpired() is false before E - W and
\* true from E - W on.
C5_ExpiresAtExpirationMinusWindow ==
    (lastOK.kind = "role" /\ p.STS.ExpiryWindow > 0)
    => (IsExpired(p, now) <=> now >= lastOK.expiration - p.STS.ExpiryWindow)

C5_Witness ==
    /\ lastOK.kind = "role"
    /\ p.STS.ExpiryWindow > 0
    /\ now > 1
    /\ now = lastOK.expiration - p.STS.ExpiryWindow
    /\ IsExpired(p, now)

\* C6: as long as no Retrieve has completed successfully, IsExpired() is
\* true.
C6_ExpiredBeforeFirstSuccess ==
    lastOK.kind = "none" => IsExpired(p, now)

C6_Witness ==
    /\ lastOK.kind = "none"
    /\ last.kind # "init"
    /\ last.err # NoError
    /\ now > 1
    /\ IsExpired(p, now)

\* C7: with caching disabled, a Retrieve that loaded the primary and the
\* source profile made exactly one network call.
C7_OneCallPerRetrieveWithoutCache ==
    (~p.Cache /\ Reached(last)) => Len(last.calls) = 1

\* A call made, and failed, while the session of an earlier Retrieve was
\* still unexpired.
C7_Witness ==
    /\ ~p.Cache
    /\ Reached(last)
    /\ Len(last.calls) = 1
    /\ last.err # NoError
    /\ lastOK.kind = "role"
    /\ ~IsExpired(p, now)

\* C8: a Retrieve of a role-chained profile without source_profile takes
\* "default" as the source and, that profile loading, goes on to Assume.
C8_MissingSourceDefaults ==
    [][(/\ Retrieve
        /\ OmitsSource(p, env, credsFile)
        /\ loadProfile(credsFile, filename(p, env).name, DefaultName).err = NoError)
       => (/\ Reached(last')
           /\ Deref(last'.credentials).SourceProfile = DefaultName
           /\ last'.source =
                Some(loadProfile(credsFile, filename(p, env).name, DefaultName).value))]_vars

\* C9: loadProfile on a section with a role_arn and no source_profile fails
\* with SharedCredsSourceProfile and returns no credential field.
C9_RoleWithoutSourceFailsLoading ==
    (/\ load.done
     /\ load.file.readable
     /\ load.profile \in DOMAIN load.file.sections
     /\ load.file.sections[load.profile].role_arn # Empty
     /\ load.file.sections[load.profile].source_profile = Empty)
    => (/\ load.result.err.Code = "SharedCredsSourceProfile"
        /\ load.result.value = EmptyValue)

C9_Witness ==
    /\ load.done
    /\ load.file.readable
    /\ load.profile \in DOMAIN load.file.sections
    /\ load.file.sections[load.profile].role_arn # Empty
    /\ load.file.sections[load.profile].source_profile = Empty
    /\ load.file.sections[load.profile].aws_access_key_id # Empty
    /\ load.file.sections[load.profile].aws_secret_access_key # Empty
    /\ load.result.err.Code = "SharedCredsSourceProfile"

\* C10: every role-assumption request is signed with the access key and
\* the secret key loaded from the source profile.
C10_RequestSignedWithSourceProfile ==
    (last.calls # << >> /\ last.source # None)
    => last.calls[1].SignedWith =
         [AccessKeyID |-> Deref(last.source).AccessKeyID,
          SecretAccessKey |-> Deref(last.source).SecretAccessKey]

\* The two triples given to getCacheKey differ in exactly one field.
DiffersInOneField == Cardinality({i \in 1..3 : keyed.a[i] # keyed.b[i]}) = 1

\* Two role identifiers of the same length that agree at every position
\* except where one has a colon and the other an underscore.
ColonUnderscoreTwins(x, y) ==
    /\ Len(x) = Len(y)
    /\ \A i \in 1..Len(x) : x[i] = y[i] \/ {x[i], y[i]} = {":", "_"}

\* C11 as stated: two triples that differ in exactly one field never get
\* the same key, role identifiers differing in colon versus underscore
\* included.
C11_OneFieldApartNeverCollides ==
    (keyed.done /\ DiffersInOneField) => keyed.keyA # keyed.keyB

\* C11 amended: two triples that differ in exactly one field get the same
\* key only when the differing field is the role identifier and the two
\* identifiers differ only in colons versus underscores.
C11_OneFieldApartCollidesOnlyOnColonUnderscore ==
    (keyed.done /\ DiffersInOneField /\ keyed.keyA = keyed.keyB)
    => /\ keyed.a[2] # keyed.b[2]
       /\ ColonUnderscoreTwins(keyed.a[2], keyed.b[2])

C11_Witness ==
    /\ keyed.done
    /\ DiffersInOneField
    /\ keyed.a[2] = <<":", "/">>
    /\ keyed.b[2] = <<"_", "/">>
    /\ keyed.keyA = keyed.keyB

\* C12: the cache key holds neither a colon nor a path separator, whatever
\* the profile, the role identifier and the session name are.
C12_KeyIsFilesystemSafe ==
    keyed.done
    => \A i \in 1..Len(keyed.keyA) : keyed.keyA[i] \notin {":", "/"}

\* The key the description gives: profile, "--", the role identifier with
\* each colon turned into an underscore, then "--" and the session name when
\* there is one.
Sanitized(arn) == [i \in 1..Len(arn) |-> IF arn[i] = ":" THEN "_" ELSE arn[i]]

DescribedKey(triple) ==
    LET base == triple[1] \o <<"-", "-">> \o Sanitized(triple[2]) IN
    IF triple[3] = Empty THEN base ELSE base \o <<"-", "-">> \o triple[3]

\* C13: the key is profile + "--" + the role identifier with every colon
\* replaced by an underscore, followed by "--" + session name exactly when
\* the session name is non-empty, and two calls on the same inputs agree.
C13_KeyIsProfileArnSession ==
    keyed.done
    => /\ keyed.keyA = DescribedKey(keyed.a)
       /\ keyed.keyB = DescribedKey(keyed.b)
       /\ (keyed.a = keyed.b => keyed.keyA = keyed.keyB)

C13_Witness ==
    /\ keyed.done
    /\ keyed.a = <<DefaultName, <<":", ":">>, SessionS>>
    /\ keyed.keyA = DefaultName \o <<"-", "-", "_", "_", "-", "-">> \o SessionS
    /\ keyed.b = <<OpsName, <<":", "/">>, Empty>>
    /\ keyed.keyB = OpsName \o <<"-", "-", "_", "/">>

\* A step taken by Retrieve: the only action that leaves both the clock and
\* the credentials file as they are.
RetrieveStep == now' = now /\ credsFile' = credsFile

LoadedSection ==
    /\ load.done
    /\ load.file.readable
    /\ load.profile \in DOMAIN load.file.sections

\* C15: loading a section without role_arn fails with SharedCredsAccessKey
\* when the access key is empty (the secret key empty or not) and with
\* SharedCredsSecret when only the secret key is empty; and every profile
\* loaded without error has both keys, or both role_arn and source_profile.
C15_StaticProfileNeedsBothKeys ==
    /\ LoadedSection
       => LET s == load.file.sections[load.profile] IN
          /\ (s.role_arn = Empty /\ s.aws_access_key_id = Empty)
             => load.result.err.Code = "SharedCredsAccessKey"
          /\ (s.role_arn = Empty /\ s.aws_access_key_id # Empty
                                 /\ s.aws_secret_access_key = Empty)
             => load.result.err.Code = "SharedCredsSecret"
    /\ (load.done /\ load.result.err = NoError)
       => \/ /\ load.result.value.AccessKeyID # Empty
             /\ load.result.value.SecretAccessKey # Empty
          \/ /\ load.result.value.RoleARN # Empty
             /\ load.result.value.SourceProfile # Empty

\* A section with neither key and no role_arn was refused for its access key.
C15_Witness ==
    /\ LoadedSection
    /\ load.file.sections[load.profile].role_arn = Empty
    /\ load.file.sections[load.profile].aws_access_key_id = Empty
    /\ load.file.sections[load.profile].aws_secret_access_key = Empty
    /\ load.result.err.Code = "SharedCredsAccessKey"

\* C16: once Set has succeeded on a file, Get on that file returns, without
\* error, a response equal field by field to the one most recently Set; and
\* a successful Set of the response already stored leaves the file as it was.
C16_GetReturnsLatestSet ==
    /\ (/\ cacheOp.op = "Get"
        /\ Deref(cacheOp.file) \in DOMAIN cacheOp.stored
        /\ Deref(cacheOp.file) \notin cacheOp.failed)
       => /\ cacheOp.got.err = NoError
          /\ cacheOp.got.response = Some(cacheOp.stored[Deref(cacheOp.file)])
    /\ (cacheOp.op = "Set" /\ cacheOp.repeated /\ cacheOp.got.err = NoError)
       => cacheStore[Deref(cacheOp.file)] = Deref(cacheOp.before)

\* Both files have been written, and Get on one that a successful Set
\* wrote last returned the session stored there.
C16_Witness ==
    /\ cacheOp.op = "Get"
    /\ Deref(cacheOp.file) \in DOMAIN cacheOp.stored
    /\ Deref(cacheOp.file) \notin cacheOp.failed
    /\ cacheOp.before # None
    /\ cacheOp.got.response = Some(SessionCredentials(<<"N">>, 2))
    /\ Cardinality(DOMAIN cacheStore) = 2

\* C17: the stored expiration changes only in a Retrieve that completes a
\* role assumption without error; a Retrieve that fails and a Retrieve of a
\* static profile leave it as it was.
C17_ExpirationChangesOnlyOnRoleSuccess ==
    [][p'.Expiry # p.Expiry
       => (RetrieveStep /\ last'.kind = "role" /\ last'.err = NoError /\ ~last'.panic)]_vars

\* A refresh of a role-chained profile failed in the AssumeRole call and the
\* expiration of the session obtained before is still the stored one.
C17_Witness ==
    /\ lastOK.kind = "role"
    /\ last.kind = "role"
    /\ last.calls # << >>
    /\ last.err # NoError
    /\ p.Expiry.expiration # 0
    /\ p.Expiry = SetExpiration(p, lastOK.expiration, p.STS.ExpiryWindow).Expiry

\* C18: the retrieved flag is true exactly when the most recent Retrieve
\* succeeded on a static profile; it is false before the first Retrieve,
\* after a failed Retrieve and after a role-chained Retrieve.
C18_RetrievedIffLastRetrieveStatic ==
    p.retrieved <=> (last.kind = "static" /\ last.err = NoError /\ ~last.panic)

\* A Retrieve failed after a static one had succeeded and the flag is down.
C18_Witness ==
    /\ lastOK.kind = "static"
    /\ last.kind = "none"
    /\ last.err # NoError
    /\ ~p.retrieved

\* The file the cache of a Retrieve is kept in.
CacheFileOf(l) == CacheFor(p, env, Deref(l.credentials)).FileName

\* C19: with caching on and no role_session_name in the role-chained
\* profile, a Retrieve takes the session name from the clock reading of the
\* call, so its cache entry is not the one of the Retrieve before it when
\* that was made at another instant, nor the one the same profile gets at
\* any other instant.
C19_FreshSessionNameFreshCacheKey ==
    [][(RetrieveStep /\ p.Cache /\ last'.derivedAt # None)
       => LET c == Deref(last'.credentials) IN
          /\ c.RoleSessionName = FormatInt(now)
          /\ (last.derivedAt # None /\ Deref(last.derivedAt) # now)
             => CacheFileOf(last) # CacheFileOf(last')
          /\ \A t \in (1..MaxClock) \ {now} :
               CacheFor(p, env, [c EXCEPT !.RoleSessionName = FormatInt(t)]).FileName
               # CacheFileOf(last')]_vars

\* After a role assumption had succeeded, a Retrieve made later than the
\* first instant, the cache being on, derived its session name from the
\* clock and failed.
C19_Witness ==
    /\ p.Cache
    /\ last.derivedAt = Some(now)
    /\ now > 1
    /\ lastOK.kind = "role"
    /\ last.err # NoError
    /\ Deref(last.credentials).RoleSessionName = FormatInt(now)

====
